---- MODULE Spec2Model ----
(***************************************************************************)
(* Token management of the SmartCard-HSM PKCS#11 module                    *)
(* (src/src/pkcs11/token.c): the two object lists of a token, the handle   *)
(* allocator, the login state, token teardown and the detection of a newly *)
(* inserted token by the driver table.                                     *)
(***************************************************************************)
EXTENDS Integers, Sequences, FiniteSets, TLC

VARIABLES
    tokenState,                  \* "live" until free(token), then "freed"
    tokenObjList,                \* token->tokenObjList, head first
    tokenPrivObjList,            \* token->tokenPrivObjList, head first
    numberOfTokenObjects,        \* token->numberOfTokenObjects
    numberOfPrivateTokenObjects, \* token->numberOfPrivateTokenObjects
    freeObjectNumber,            \* token->freeObjectNumber
    user,                        \* token->user
    drv,                         \* token->drv: which optional hooks the driver has
    sessionPool,                 \* context->sessionPool: session handle -> slot id
    pc,                          \* position of the call in progress
    ret,                         \* the call that returned last and its result
    assigned,                    \* history: handles given out by addObject, in order
    freed,                       \* history: handles of the objects removed so far
    presetSeen,                  \* history: some object arrived with a handle
    teardown,                    \* history: the steps freeToken has completed
    atr,                         \* newToken: what each driver does with the ATR
    t,                           \* newToken: index into tokenDriver[]
    primarySlot,                 \* slot->primarySlot of every slot, 0 for NULL
    calls                        \* history: the calls of driver functions made by
                                 \* newToken or by the function of the token that
                                 \* is in progress or returned last

vars == <<tokenState, tokenObjList, tokenPrivObjList, numberOfTokenObjects,
          numberOfPrivateTokenObjects, freeObjectNumber, user, drv, sessionPool,
          pc, ret, assigned, freed, presetSeen, teardown, atr, t, calls,
          primarySlot>>

detectVars == <<atr, t, calls>>

----------------------------------------------------------------------------
(* Bounds of the model *)

\* addObject allocates handles only while freeObjectNumber <= MaxHandle
MaxHandle == 3
\* neither list, and neither count, grows beyond MaxLen
MaxLen == 2
\* sessions that can be open at once
MaxSessions == 1

\* the number of slots
MaxSlots == 4

----------------------------------------------------------------------------
(* Program constants *)

CKR_OK == 0
CKR_ARGUMENTS_BAD == 7
CKR_FUNCTION_NOT_SUPPORTED == 84
CKR_TOKEN_NOT_RECOGNIZED == 225

CKU_SO == 0
CKU_USER == 1
\* the value logOut stores in token->user
NoUser == 255

\* number of entries of tokenDriver[] before the terminating NULL
NumDrivers == 6

\* token->slot->id of the token, and the id of another slot
SlotId == 1
OtherSlotId == 2
SlotIds == {SlotId, OtherSlotId}

NULL == [null |-> TRUE]

\* attribute types and values of the objects of the model
AttrTypes == {0}
AttrValues == {1, 2}

\* an attribute list (of an object) or a template: attribute type -> value
AttrMaps == UNION {[D -> AttrValues] : D \in SUBSET AttrTypes}

Handles == 1..MaxHandle

\* the attribute lists the objects of the model arrive with
ObjectAttrs == {m \in AttrMaps : \A a \in DOMAIN m : m[a] = 1}

\* the handles objects arrive with: 0 (none yet), or a handle set by the caller
ObjectHandles == {0, 1}

\* struct p11Object_t as far as token.c reads and writes it: the objects
\* handed to addObject
Objects == [handle : ObjectHandles, attributes : ObjectAttrs, dirtyFlag : {0, 1}]

----------------------------------------------------------------------------
(* Helpers of object.c and session.c *)

\* addObjectToList: the object is appended at the tail of the list
addObjectToList(list, object) == Append(list, object)

\* position (1-based) of the first object of list carrying handle, 0 if none
RECURSIVE IndexOf(_, _, _)
IndexOf(list, handle, i) ==
    IF i > Len(list) THEN 0
    ELSE IF list[i].handle = handle THEN i
    ELSE IndexOf(list, handle, i + 1)

RemoveAt(list, i) ==
    [j \in 1..(Len(list) - 1) |-> IF j < i THEN list[j] ELSE list[j + 1]]

\* removeObjectFromList: unlinks the first object with the handle; fails when
\* the handle is not in the list
removeObjectFromList(list, handle) ==
    LET i == IndexOf(list, handle, 1)
    IN  IF i = 0 THEN [rc |-> -1, list |-> list]
        ELSE [rc |-> CKR_OK, list |-> RemoveAt(list, i)]

\* removeAllObjectsFromList: the list is drained
removeAllObjectsFromList(list) == <<>>

\* isMatchingObject: the object has every attribute of the template, with an
\* equal value
isMatchingObject(object, pTemplate) ==
    \A a \in DOMAIN pTemplate :
        a \in DOMAIN object.attributes /\ object.attributes[a] = pTemplate[a]

\* closeSessionsForSlot: every session bound to the slot leaves the pool
closeSessionsForSlot(pool, slotID) ==
    [s \in {x \in DOMAIN pool : pool[x] # slotID} |-> pool[s]]

----------------------------------------------------------------------------
(* Queries of token.c *)

\* findObject without the check of token->user
findObject_ungated(handle, out, publicObject) ==
    LET list == IF publicObject THEN tokenObjList ELSE tokenPrivObjList
        i == IndexOf(list, handle, 1)
    IN  IF i = 0 THEN [rc |-> -1, object |-> NULL]
        ELSE [rc |-> i - 1, object |-> list[i]]

\* findObject: rc is the position of the object or -1; object is *object
\* after the call, out being what the caller had stored there before
findObject(handle, out, publicObject) ==
    IF ~publicObject /\ user # CKU_USER
    THEN [rc |-> -1, object |-> out]
    ELSE LET list == IF publicObject THEN tokenObjList ELSE tokenPrivObjList
             i == IndexOf(list, handle, 1)
         IN  IF i = 0 THEN [rc |-> -1, object |-> NULL]
             ELSE [rc |-> i - 1, object |-> list[i]]

\* first object of list matching the template, NULL if none
RECURSIVE FirstMatch(_, _, _)
FirstMatch(list, pTemplate, i) ==
    IF i > Len(list) THEN NULL
    ELSE IF isMatchingObject(list[i], pTemplate) THEN list[i]
    ELSE FirstMatch(list, pTemplate, i + 1)

\* findMatchingTokenObject searching the private list before the public list
findMatchingTokenObject_privateFirst(pTemplate, out) ==
    LET p == FirstMatch(tokenObjList, pTemplate, 1)
        q == FirstMatch(tokenPrivObjList, pTemplate, 1)
    IN  IF q # NULL THEN [rc |-> CKR_OK, object |-> q, private |-> TRUE]
        ELSE IF p # NULL THEN [rc |-> CKR_OK, object |-> p, private |-> FALSE]
        ELSE [rc |-> CKR_ARGUMENTS_BAD, object |-> out, private |-> FALSE]

\* findMatchingTokenObject: object is *pObject after the call
findMatchingTokenObject(pTemplate, out) ==
    LET p == FirstMatch(tokenObjList, pTemplate, 1)
        q == FirstMatch(tokenPrivObjList, pTemplate, 1)
    IN  IF p # NULL THEN [rc |-> CKR_OK, object |-> p, private |-> FALSE]
        ELSE IF q # NULL THEN [rc |-> CKR_OK, object |-> q, private |-> TRUE]
        ELSE [rc |-> CKR_ARGUMENTS_BAD, object |-> out, private |-> FALSE]

----------------------------------------------------------------------------
(* The token after a driver has constructed it *)

Idle == pc = "idle" /\ tokenState = "live"

Returns(op, rc) == ret' = [op |-> op, rc |-> rc]

\* a function of the token begins; it has called no function of the driver
noDriverCall == calls' = <<>> /\ UNCHANGED <<atr, t, primarySlot>>

\* a call of a function of the driver of the token, which reports rc
drvCall(fn, rc) == [drv |-> "token", fn |-> fn, rc |-> rc]

\* the call of the driver's login for userType, which reports rc
drvLoginCall(userType, rc) ==
    [drv |-> "token", fn |-> "login", userType |-> userType, rc |-> rc]

\* the handles of the objects of a list
HandlesOf(list) == {list[i].handle : i \in DOMAIN list}

\* allocation skipped: the handle is taken from freeObjectNumber, which stays
allocHandle_noIncrement == [handle |-> freeObjectNumber, next |-> freeObjectNumber]

\* allocation of the lowest handle no object of the token carries
allocHandle_lowestUnused ==
    LET used == HandlesOf(tokenObjList) \cup HandlesOf(tokenPrivObjList)
        h == CHOOSE n \in 1..(MaxHandle + 1) :
                 n \notin used /\ \A m \in 1..(n - 1) : m \in used
    IN  [handle |-> h, next |-> IF h < freeObjectNumber THEN freeObjectNumber ELSE h + 1]

\* object->handle = token->freeObjectNumber++
allocHandle == [handle |-> freeObjectNumber, next |-> freeObjectNumber + 1]

\* addObject; object->token is the one token of the model, and publicObject
\* is TRUE or FALSE, as the callers pass it
addObject(object, publicObject) ==
    LET handle == IF object.handle = 0 THEN allocHandle.handle ELSE object.handle
        obj == [object EXCEPT !.handle = handle, !.dirtyFlag = 1]
    IN  /\ Idle
        /\ object.handle = 0 => freeObjectNumber <= MaxHandle
        /\ IF publicObject
           THEN Len(tokenObjList) < MaxLen /\ numberOfTokenObjects < MaxLen
           ELSE Len(tokenPrivObjList) < MaxLen /\ numberOfPrivateTokenObjects < MaxLen
        /\ freeObjectNumber' =
               IF object.handle = 0 THEN allocHandle.next ELSE freeObjectNumber
        /\ IF publicObject
           THEN /\ tokenObjList' = addObjectToList(tokenObjList, obj)
                /\ numberOfTokenObjects' = numberOfTokenObjects + 1
                /\ UNCHANGED <<tokenPrivObjList, numberOfPrivateTokenObjects>>
           ELSE /\ tokenPrivObjList' = addObjectToList(tokenPrivObjList, obj)
                /\ numberOfPrivateTokenObjects' = numberOfPrivateTokenObjects + 1
                /\ UNCHANGED <<tokenObjList, numberOfTokenObjects>>
        /\ assigned' = IF object.handle = 0 THEN Append(assigned, handle) ELSE assigned
        /\ presetSeen' = (presetSeen \/ object.handle # 0)
        /\ Returns("addObject", CKR_OK)
        /\ UNCHANGED <<tokenState, user, drv, sessionPool, pc, freed, teardown>>
        /\ noDriverCall

\* removeTokenObject decrementing the count before it has looked at the
\* result of removeObjectFromList
removeTokenObject_countFirst(handle, publicObject) ==
    LET r == removeObjectFromList(
                 IF publicObject THEN tokenObjList ELSE tokenPrivObjList, handle)
    IN  /\ pc = "idle" /\ tokenState = "live"
        /\ numberOfTokenObjects > -MaxLen /\ numberOfPrivateTokenObjects > -MaxLen
        /\ IF publicObject
           THEN /\ tokenObjList' = r.list
                /\ numberOfTokenObjects' = numberOfTokenObjects - 1
                /\ UNCHANGED <<tokenPrivObjList, numberOfPrivateTokenObjects>>
           ELSE /\ tokenPrivObjList' = r.list
                /\ numberOfPrivateTokenObjects' = numberOfPrivateTokenObjects - 1
                /\ UNCHANGED <<tokenObjList, numberOfTokenObjects>>
        /\ freed' = IF r.rc = CKR_OK THEN freed \cup {handle} ELSE freed
        /\ ret' = [op |-> "removeTokenObject", rc |-> r.rc]
        /\ calls' = <<>>
        /\ UNCHANGED <<tokenState, freeObjectNumber, user, drv, sessionPool, pc,
                       assigned, presetSeen, teardown, atr, t, primarySlot>>

\* removeTokenObject decrementing the count of the public objects for an
\* object of either list
removeTokenObject_publicCount(handle, publicObject) ==
    LET r == removeObjectFromList(
                 IF publicObject THEN tokenObjList ELSE tokenPrivObjList, handle)
    IN  /\ pc = "idle" /\ tokenState = "live"
        /\ IF r.rc # CKR_OK
           THEN UNCHANGED <<tokenObjList, tokenPrivObjList, numberOfTokenObjects, freed>>
           ELSE /\ IF publicObject
                   THEN tokenObjList' = r.list /\ UNCHANGED tokenPrivObjList
                   ELSE tokenPrivObjList' = r.list /\ UNCHANGED tokenObjList
                /\ numberOfTokenObjects' = numberOfTokenObjects - 1
                /\ freed' = freed \cup {handle}
        /\ ret' = [op |-> "removeTokenObject", rc |-> r.rc]
        /\ calls' = <<>>
        /\ UNCHANGED <<tokenState, numberOfPrivateTokenObjects, freeObjectNumber, user,
                       drv, sessionPool, pc, assigned, presetSeen, teardown, atr, t,
                   primarySlot>>

\* removeTokenObject
removeTokenObject(handle, publicObject) ==
    LET r == removeObjectFromList(
                 IF publicObject THEN tokenObjList ELSE tokenPrivObjList, handle)
    IN  /\ Idle
        /\ IF r.rc # CKR_OK
           THEN UNCHANGED <<tokenObjList, tokenPrivObjList, numberOfTokenObjects,
                            numberOfPrivateTokenObjects, freed>>
           ELSE /\ IF publicObject
                   THEN /\ tokenObjList' = r.list
                        /\ numberOfTokenObjects' = numberOfTokenObjects - 1
                        /\ UNCHANGED <<tokenPrivObjList, numberOfPrivateTokenObjects>>
                   ELSE /\ tokenPrivObjList' = r.list
                        /\ numberOfPrivateTokenObjects' = numberOfPrivateTokenObjects - 1
                        /\ UNCHANGED <<tokenObjList, numberOfTokenObjects>>
                /\ freed' = freed \cup {handle}
        /\ Returns("removeTokenObject", r.rc)
        /\ UNCHANGED <<tokenState, freeObjectNumber, user, drv, sessionPool, pc,
                       assigned, presetSeen, teardown>>
        /\ noDriverCall

\* removeObjectLeavingAttributes
removeObjectLeavingAttributes(handle, publicObject) ==
    LET f == findObject(handle, NULL, publicObject)
        list == IF publicObject THEN tokenObjList ELSE tokenPrivObjList
        \* rc > 0: the predecessor of the object is linked to its successor;
        \* rc = 0: the head of the list is set to NULL
        left == IF f.rc > 0 THEN RemoveAt(list, f.rc + 1) ELSE <<>>
    IN  /\ Idle
        /\ numberOfTokenObjects > -MaxLen
        /\ IF f.rc < 0
           THEN UNCHANGED <<tokenObjList, tokenPrivObjList, numberOfTokenObjects, freed>>
           ELSE /\ IF publicObject
                   THEN tokenObjList' = left /\ UNCHANGED tokenPrivObjList
                   ELSE tokenPrivObjList' = left /\ UNCHANGED tokenObjList
                /\ numberOfTokenObjects' = numberOfTokenObjects - 1
                /\ freed' = freed \cup {handle}
        /\ Returns("removeObjectLeavingAttributes", IF f.rc < 0 THEN f.rc ELSE CKR_OK)
        /\ UNCHANGED <<tokenState, numberOfPrivateTokenObjects, freeObjectNumber, user,
                       drv, sessionPool, pc, assigned, presetSeen, teardown>>
        /\ noDriverCall

\* results a driver's login reports: CKR_OK, CKR_PIN_INCORRECT, CKR_PIN_LOCKED
LoginResults == {CKR_OK, 160, 164}

\* the driver's login: the card verifies the PIN; token->user is set on success
drvLogin(userType, rc) ==
    user' = IF rc = CKR_OK THEN userType ELSE user

\* logIn setting token->user itself, whatever the driver reports
logIn_setsUser(userType, rc) ==
    /\ pc = "idle" /\ tokenState = "live"
    /\ user' = userType
    /\ calls' = <<drvLoginCall(userType, rc)>>
    /\ ret' = [op |-> "logIn", rc |-> rc]
    /\ UNCHANGED <<tokenState, tokenObjList, tokenPrivObjList, numberOfTokenObjects,
                   numberOfPrivateTokenObjects, freeObjectNumber, drv, sessionPool,
                   pc, assigned, freed, presetSeen, teardown, atr, t,
                   primarySlot>>

\* logIn
logIn(userType, rc) ==
    /\ Idle
    /\ drvLogin(userType, rc)
    /\ calls' = <<drvLoginCall(userType, rc)>>
    /\ Returns("logIn", rc)
    /\ UNCHANGED <<tokenState, tokenObjList, tokenPrivObjList, numberOfTokenObjects,
                   numberOfPrivateTokenObjects, freeObjectNumber, drv, sessionPool,
                   pc, assigned, freed, presetSeen, teardown, atr, t,
                   primarySlot>>

\* results a driver's logout reports: CKR_OK, CKR_DEVICE_ERROR
LogoutResults == {CKR_OK, 48}

\* logOut calling the driver with token->user as it was
logOutSetUser_late ==
    /\ pc = "idle" /\ tokenState = "live"
    /\ pc' = "logOut_drv"
    /\ UNCHANGED <<tokenState, tokenObjList, tokenPrivObjList, numberOfTokenObjects,
                   numberOfPrivateTokenObjects, freeObjectNumber, user, drv,
                   sessionPool, ret, assigned, freed, presetSeen, teardown>>
    /\ calls' = <<>> /\ UNCHANGED <<atr, t, primarySlot>>

\* logOut, up to the call of the driver: slot->token->user = 0xFF
logOutSetUser ==
    /\ Idle
    /\ user' = NoUser
    /\ pc' = "logOut_drv"
    /\ UNCHANGED <<tokenState, tokenObjList, tokenPrivObjList, numberOfTokenObjects,
                   numberOfPrivateTokenObjects, freeObjectNumber, drv, sessionPool,
                   ret, assigned, freed, presetSeen, teardown>>
    /\ noDriverCall

\* logOut, the rest: return slot->token->drv->logout(slot)
logOutDriver(rc) ==
    /\ pc = "logOut_drv"
    /\ pc' = "idle"
    /\ Returns("logOut", rc)
    /\ UNCHANGED <<tokenState, tokenObjList, tokenPrivObjList, numberOfTokenObjects,
                   numberOfPrivateTokenObjects, freeObjectNumber, user, drv,
                   sessionPool, assigned, freed, presetSeen, teardown>>
    /\ calls' = <<drvCall("logout", rc)>> /\ UNCHANGED <<atr, t, primarySlot>>

\* results a driver's initpin and setpin report: CKR_OK, CKR_PIN_INCORRECT,
\* CKR_PIN_LEN_RANGE
PinResults == {CKR_OK, 160, 162}

\* initPIN calling the hook without looking whether it is set
initPIN_unchecked(rc) ==
    /\ pc = "idle" /\ tokenState = "live"
    /\ calls' = <<drvCall("initpin", rc)>>
    /\ ret' = [op |-> "initPIN", rc |-> rc]
    /\ UNCHANGED <<tokenState, tokenObjList, tokenPrivObjList, numberOfTokenObjects,
                   numberOfPrivateTokenObjects, freeObjectNumber, user, drv,
                   sessionPool, pc, assigned, freed, presetSeen, teardown, atr, t,
                   primarySlot>>

\* initPIN; rc is what the driver's initpin reports if it is called
initPIN(rc) ==
    /\ Idle
    /\ IF ~drv.initpin
       THEN calls' = <<>> /\ Returns("initPIN", CKR_FUNCTION_NOT_SUPPORTED)
       ELSE calls' = <<drvCall("initpin", rc)>> /\ Returns("initPIN", rc)
    /\ UNCHANGED <<tokenState, tokenObjList, tokenPrivObjList, numberOfTokenObjects,
                   numberOfPrivateTokenObjects, freeObjectNumber, user, drv,
                   sessionPool, pc, assigned, freed, presetSeen, teardown, atr, t,
                   primarySlot>>

\* setPIN; rc is what the driver's setpin reports if it is called
setPIN(rc) ==
    /\ Idle
    /\ IF ~drv.setpin
       THEN calls' = <<>> /\ Returns("setPIN", CKR_FUNCTION_NOT_SUPPORTED)
       ELSE calls' = <<drvCall("setpin", rc)>> /\ Returns("setPIN", rc)
    /\ UNCHANGED <<tokenState, tokenObjList, tokenPrivObjList, numberOfTokenObjects,
                   numberOfPrivateTokenObjects, freeObjectNumber, user, drv,
                   sessionPool, pc, assigned, freed, presetSeen, teardown, atr, t,
                   primarySlot>>

\* a session is opened on a slot (session.c); none while a call on the token
\* is in progress
openSession(slotID) ==
    /\ Idle
    /\ \E h \in (1..MaxSessions) \ DOMAIN sessionPool :
           sessionPool' = [s \in DOMAIN sessionPool \cup {h} |->
                               IF s = h THEN slotID ELSE sessionPool[s]]
    /\ Returns("openSession", CKR_OK)
    /\ UNCHANGED <<tokenState, tokenObjList, tokenPrivObjList, numberOfTokenObjects,
                   numberOfPrivateTokenObjects, freeObjectNumber, user, drv, pc,
                   assigned, freed, presetSeen, teardown>>
    /\ UNCHANGED <<detectVars, primarySlot>>

\* a session is opened on a slot by another thread: the slot holds the
\* token, and a call on the token may be in progress
openSessionConcurrent(slotID) ==
    /\ tokenState = "live"
    /\ \E h \in (1..MaxSessions) \ DOMAIN sessionPool :
           sessionPool' = [s \in DOMAIN sessionPool \cup {h} |->
                               IF s = h THEN slotID ELSE sessionPool[s]]
    /\ UNCHANGED <<tokenState, tokenObjList, tokenPrivObjList, numberOfTokenObjects,
                   numberOfPrivateTokenObjects, freeObjectNumber, user, drv, pc,
                   ret, assigned, freed, presetSeen, teardown>>
    /\ UNCHANGED <<detectVars, primarySlot>>

\* freeToken without the call of closeSessionsForSlot
freeTokenCloseSessions_skipped ==
    /\ pc = "idle" /\ tokenState = "live"
    /\ teardown' = Append(teardown, "closeSessionsForSlot")
    /\ pc' = "freeToken_drv"
    /\ UNCHANGED <<tokenState, tokenObjList, tokenPrivObjList, numberOfTokenObjects,
                   numberOfPrivateTokenObjects, freeObjectNumber, user, drv,
                   sessionPool, ret, assigned, freed, presetSeen>>
    /\ calls' = <<>> /\ UNCHANGED <<atr, t, primarySlot>>

\* freeToken: closeSessionsForSlot(&context->sessionPool, token->slot->id)
freeTokenCloseSessions ==
    /\ Idle
    /\ sessionPool' = closeSessionsForSlot(sessionPool, SlotId)
    /\ teardown' = Append(teardown, "closeSessionsForSlot")
    /\ pc' = "freeToken_drv"
    /\ UNCHANGED <<tokenState, tokenObjList, tokenPrivObjList, numberOfTokenObjects,
                   numberOfPrivateTokenObjects, freeObjectNumber, user, drv, ret,
                   assigned, freed, presetSeen>>
    /\ noDriverCall

\* freeToken calling the hook of the driver without looking whether it is set
freeTokenDriver_unconditional ==
    /\ pc = "freeToken_drv"
    /\ teardown' = Append(teardown, "drv->freeToken")
    /\ pc' = "freeToken_priv"
    /\ UNCHANGED <<tokenState, tokenObjList, tokenPrivObjList, numberOfTokenObjects,
                   numberOfPrivateTokenObjects, freeObjectNumber, user, drv,
                   sessionPool, ret, assigned, freed, presetSeen>>
    /\ UNCHANGED <<atr, t, calls, primarySlot>>

\* freeToken: if (token->drv->freeToken) token->drv->freeToken(token)
freeTokenDriver ==
    /\ pc = "freeToken_drv"
    /\ teardown' = IF drv.freeToken THEN Append(teardown, "drv->freeToken")
                   ELSE teardown
    /\ pc' = "freeToken_priv"
    /\ UNCHANGED <<tokenState, tokenObjList, tokenPrivObjList, numberOfTokenObjects,
                   numberOfPrivateTokenObjects, freeObjectNumber, user, drv,
                   sessionPool, ret, assigned, freed, presetSeen>>
    /\ UNCHANGED <<detectVars, primarySlot>>

\* removePrivateObjects, called by freeToken
removePrivateObjects ==
    /\ pc = "freeToken_priv"
    /\ tokenPrivObjList' = removeAllObjectsFromList(tokenPrivObjList)
    /\ numberOfPrivateTokenObjects' = 0
    /\ teardown' = Append(teardown, "removePrivateObjects")
    /\ pc' = "freeToken_pub"
    /\ UNCHANGED <<tokenState, tokenObjList, numberOfTokenObjects, freeObjectNumber,
                   user, drv, sessionPool, ret, assigned, freed, presetSeen>>
    /\ UNCHANGED <<detectVars, primarySlot>>

\* removePublicObjects, called by freeToken
removePublicObjects ==
    /\ pc = "freeToken_pub"
    /\ tokenObjList' = removeAllObjectsFromList(tokenObjList)
    /\ numberOfTokenObjects' = 0
    /\ teardown' = Append(teardown, "removePublicObjects")
    /\ pc' = "freeToken_free"
    /\ UNCHANGED <<tokenState, tokenPrivObjList, numberOfPrivateTokenObjects,
                   freeObjectNumber, user, drv, sessionPool, ret, assigned, freed,
                   presetSeen>>
    /\ UNCHANGED <<detectVars, primarySlot>>

\* freeToken: free(token)
freeTokenFree ==
    /\ pc = "freeToken_free"
    /\ tokenState' = "freed"
    /\ teardown' = Append(teardown, "free")
    /\ pc' = "idle"
    /\ Returns("freeToken", CKR_OK)
    /\ UNCHANGED <<tokenObjList, tokenPrivObjList, numberOfTokenObjects,
                   numberOfPrivateTokenObjects, freeObjectNumber, user, drv,
                   sessionPool, assigned, freed, presetSeen>>
    /\ UNCHANGED <<detectVars, primarySlot>>

\* the optional hooks a driver may have
Drivers == [freeToken : BOOLEAN, initpin : BOOLEAN, setpin : BOOLEAN]

\* no call of newToken in progress
NoDetection ==
    /\ atr = <<>>
    /\ t = 0
    /\ calls = <<>>

\* the slots; each holds a token, named by the number of its slot
Slots == 1..MaxSlots

\* no slot is a virtual slot
NoVirtualSlots == primarySlot = [slot \in Slots |-> 0]

\* the slot reached from slot by following primarySlot of g until it is NULL,
\* or 0 if n references do not lead there
RECURSIVE physicalSlot(_, _, _)
physicalSlot(g, slot, n) ==
    IF g[slot] = 0 THEN slot
    ELSE IF n = 0 THEN 0
    ELSE physicalSlot(g, g[slot], n - 1)

\* the primarySlot references without cycles: from every slot they lead to
\* a slot without primarySlot
SlotGraphs ==
    {g \in [Slots -> {0} \cup Slots] : \A slot \in Slots : physicalSlot(g, slot, MaxSlots) # 0}

\* getBaseToken
getBaseToken(token) ==
    IF primarySlot[token] = 0 THEN token ELSE primarySlot[token]

\* a call of getBaseToken for the token of a slot
callGetBaseToken(token) ==
    /\ Idle
    /\ Returns("getBaseToken", getBaseToken(token))
    /\ UNCHANGED <<tokenState, tokenObjList, tokenPrivObjList, numberOfTokenObjects,
                   numberOfPrivateTokenObjects, freeObjectNumber, user, drv,
                   sessionPool, pc, assigned, freed, presetSeen, teardown>>
    /\ noDriverCall

\* a driver with every optional hook
FullDriver == [freeToken |-> TRUE, initpin |-> TRUE, setpin |-> TRUE]

\* the token as the newToken of one of the drivers hands it over, in a slot
\* without sessions
Constructed(drivers) ==
    /\ tokenState = "live"
    /\ tokenObjList = <<>>
    /\ tokenPrivObjList = <<>>
    /\ numberOfTokenObjects = 0
    /\ numberOfPrivateTokenObjects = 0
    /\ freeObjectNumber = 1
    /\ user = NoUser
    /\ drv \in drivers
    /\ sessionPool = <<>>
    /\ pc = "idle"
    /\ ret = [op |-> "newToken", rc |-> CKR_OK]
    /\ assigned = <<>>
    /\ freed = {}
    /\ presetSeen = FALSE
    /\ teardown = <<>>
    /\ NoDetection

\* the calls on a live token that work on its object lists and its login
\* state, for objects drawn from objs and driver results from loginRc, logoutRc
TokenCalls(objs, loginRc, logoutRc) ==
    \/ \E object \in objs, publicObject \in BOOLEAN : addObject(object, publicObject)
    \/ \E handle \in Handles, publicObject \in BOOLEAN :
           removeTokenObject(handle, publicObject)
    \/ \E handle \in Handles, publicObject \in BOOLEAN :
           removeObjectLeavingAttributes(handle, publicObject)
    \/ \E userType \in {CKU_SO, CKU_USER}, rc \in loginRc : logIn(userType, rc)
    \/ logOutSetUser
    \/ \E rc \in logoutRc : logOutDriver(rc)

\* objects without attributes, with or without a handle
PlainObjects == {o \in Objects : DOMAIN o.attributes = {}}

\* objects that arrive without a handle
FreshObjects == {o \in Objects : o.handle = 0}

Init == Constructed({FullDriver}) /\ NoVirtualSlots

Next == TokenCalls(PlainObjects, LoginResults, LogoutResults)

\* object lists and login state of a live token
Spec == Init /\ [][Next]_vars

\* the same calls for objects with attributes that arrive without a handle
NextMatch == TokenCalls(FreshObjects, {CKR_OK}, {CKR_OK})

\* object lists of a live token whose objects carry attributes
SpecMatch == Init /\ [][NextMatch]_vars

InitFree == Constructed(Drivers) /\ NoVirtualSlots

NextFree ==
    \/ \E object \in PlainObjects \cap FreshObjects, publicObject \in BOOLEAN :
           addObject(object, publicObject)
    \/ \E slotID \in SlotIds : openSession(slotID)
    \/ freeTokenCloseSessions
    \/ freeTokenDriver
    \/ removePrivateObjects
    \/ removePublicObjects
    \/ freeTokenFree

\* a token with objects and sessions is released
SpecFree == InitFree /\ [][NextFree]_vars

NextConcurrent ==
    \/ \E object \in PlainObjects \cap FreshObjects, publicObject \in BOOLEAN :
           addObject(object, publicObject)
    \/ \E slotID \in SlotIds : openSessionConcurrent(slotID)
    \/ freeTokenCloseSessions
    \/ freeTokenDriver
    \/ removePrivateObjects
    \/ removePublicObjects
    \/ freeTokenFree

\* the tear-down of a token while another thread opens sessions
SpecConcurrent == InitFree /\ [][NextConcurrent]_vars

InitBase == Constructed({FullDriver}) /\ primarySlot \in SlotGraphs

NextBase == \E token \in Slots : callGetBaseToken(token)

\* the tokens of physical and virtual slots, and the lookup of the base token
SpecBase == InitBase /\ [][NextBase]_vars

NextCount ==
    \/ \E object \in PlainObjects, publicObject \in BOOLEAN :
           addObject(object, publicObject)
    \/ \E handle \in Handles, publicObject \in BOOLEAN :
           removeTokenObject(handle, publicObject)

\* a token on which only addObject and removeTokenObject are called
SpecCount == Init /\ [][NextCount]_vars

NextPin ==
    \/ \E object \in PlainObjects \cap FreshObjects : addObject(object, FALSE)
    \/ \E userType \in {CKU_SO, CKU_USER}, rc \in LoginResults \cup PinResults :
           logIn(userType, rc)
    \/ \E rc \in PinResults : initPIN(rc)
    \/ \E rc \in PinResults : setPIN(rc)

\* login and PIN management of a token, for drivers with and without the hooks
SpecPin == InitFree /\ [][NextPin]_vars

----------------------------------------------------------------------------
(* Detection of a newly inserted token *)

\* results other than CKR_OK and CKR_TOKEN_NOT_RECOGNIZED that a driver's
\* newToken reports: CKR_GENERAL_ERROR, CKR_DEVICE_ERROR
DetectErrors == {5, 48}

\* what a driver does with the card: isCandidate(atr, atrlen), and the result
\* of its newToken if it is called
DriverBehaviours ==
    {[isCandidate |-> FALSE, newToken |-> CKR_TOKEN_NOT_RECOGNIZED]} \cup
    [isCandidate : {TRUE},
     newToken : {CKR_OK, CKR_TOKEN_NOT_RECOGNIZED} \cup DetectErrors]

\* tokenDriver[]: the drivers in the order of the table
tokenDriver == 1..NumDrivers

\* newToken returns rc; with CKR_OK the driver has constructed the token
newTokenReturns(rc) ==
    /\ pc' = "idle"
    /\ Returns("newToken", rc)
    /\ tokenState' = IF rc = CKR_OK THEN "live" ELSE tokenState

\* every driver is taken for a candidate
isCandidate_always(d) == TRUE

\* drv->isCandidate(atr, atrlen)
isCandidate(d) == atr[d].isCandidate

\* the loop goes on after any failure of a driver's newToken
afterNewToken_skipErrors(rc) ==
    IF rc = CKR_OK THEN "return" ELSE "continue"

\* the loop ends with any result of a driver's newToken
afterNewToken_firstCandidate(rc) == "return"

\* what newToken does with the result of a driver's newToken: FUNC_RETURNS
\* for CKR_OK, FUNC_FAILS for all but CKR_TOKEN_NOT_RECOGNIZED
afterNewToken(rc) ==
    IF rc = CKR_OK THEN "return"
    ELSE IF rc # CKR_TOKEN_NOT_RECOGNIZED THEN "return"
    ELSE "continue"

\* newToken: one pass of the loop over tokenDriver[]
newTokenLoop ==
    /\ pc = "newToken"
    /\ t \in tokenDriver
    /\ IF isCandidate(t)
       THEN /\ calls' = calls \o <<[drv |-> t, fn |-> "isCandidate"],
                                   [drv |-> t, fn |-> "newToken"]>>
            /\ IF afterNewToken(atr[t].newToken) = "return"
               THEN newTokenReturns(atr[t].newToken) /\ UNCHANGED t
               ELSE t' = t + 1 /\ UNCHANGED <<pc, ret, tokenState>>
       ELSE /\ calls' = Append(calls, [drv |-> t, fn |-> "isCandidate"])
            /\ t' = t + 1
            /\ UNCHANGED <<pc, ret, tokenState>>
    /\ UNCHANGED <<tokenObjList, tokenPrivObjList, numberOfTokenObjects,
                   numberOfPrivateTokenObjects, freeObjectNumber, user, drv,
                   sessionPool, assigned, freed, presetSeen, teardown, atr,
                   primarySlot>>

\* newToken: the loop has reached the NULL that ends tokenDriver[]
newTokenEnd ==
    /\ pc = "newToken"
    /\ t = NumDrivers + 1
    /\ newTokenReturns(CKR_TOKEN_NOT_RECOGNIZED)
    /\ UNCHANGED <<tokenObjList, tokenPrivObjList, numberOfTokenObjects,
                   numberOfPrivateTokenObjects, freeObjectNumber, user, drv,
                   sessionPool, assigned, freed, presetSeen, teardown, atr, t,
                   calls, primarySlot>>

\* newToken is called for a slot without token, with the ATR of some card
InitDetect ==
    /\ tokenState = "none"
    /\ tokenObjList = <<>>
    /\ tokenPrivObjList = <<>>
    /\ numberOfTokenObjects = 0
    /\ numberOfPrivateTokenObjects = 0
    /\ freeObjectNumber = 1
    /\ user = NoUser
    /\ drv = FullDriver
    /\ sessionPool = <<>>
    /\ pc = "newToken"
    /\ ret = [op |-> "none", rc |-> CKR_OK]
    /\ assigned = <<>>
    /\ freed = {}
    /\ presetSeen = FALSE
    /\ teardown = <<>>
    /\ atr \in [tokenDriver -> DriverBehaviours]
    /\ t = 1
    /\ calls = <<>>
    /\ NoVirtualSlots

NextDetect == newTokenLoop \/ newTokenEnd

SpecDetect == InitDetect /\ [][NextDetect]_vars

----------------------------------------------------------------------------
(* Properties of the object lists and of the login state *)

Range(seq) == {seq[i] : i \in DOMAIN seq}

AllObjects == tokenObjList \o tokenPrivObjList

\* C1: as long as every object has arrived at addObject without a handle, no
\* two objects of the public and the private list together carry the same
\* handle; and each handle addObject assigns is greater than every handle it
\* assigned before on the token.
HandlesUniqueAndIncreasing ==
    /\ ~presetSeen =>
           \A i, j \in DOMAIN AllObjects :
               i # j => AllObjects[i].handle # AllObjects[j].handle
    /\ \A i, j \in DOMAIN assigned : i < j => assigned[i] < assigned[j]

\* C1 witness: three objects arrived without a handle and objects are in both
\* lists.
HandlesUniqueWitness ==
    /\ ~presetSeen
    /\ Len(assigned) = 3
    /\ tokenObjList # <<>>
    /\ tokenPrivObjList # <<>>
    /\ Len(AllObjects) = 3

StaleObject == [handle |-> MaxHandle + 1, attributes |-> <<>>, dirtyFlag |-> 1]

\* C3: while the user of the token is not the normal user, findObject on the
\* private list returns -1 for every handle and stores no object.
PrivateLookupGated ==
    user # CKU_USER =>
        \A handle \in 0..MaxHandle, out \in {NULL, StaleObject} :
            findObject(handle, out, FALSE) = [rc |-> -1, object |-> out]

\* C3 witness: the security officer is logged in and the private list holds
\* objects.
PrivateLookupGatedWitness ==
    /\ user = CKU_SO
    /\ tokenPrivObjList # <<>>
    /\ pc = "idle"

\* C5: once logOut has returned, the private count is 0, the private list is
\* empty and no handle resolves on the private list.
LogoutPurgesPrivateObjects ==
    (pc = "idle" /\ ret.op = "logOut") =>
        /\ numberOfPrivateTokenObjects = 0
        /\ tokenPrivObjList = <<>>
        /\ \A handle \in Handles : findObject(handle, NULL, FALSE).rc = -1

\* the roles of PKCS#11: CKU_SO, CKU_USER, CKU_CONTEXT_SPECIFIC
Roles == {CKU_SO, CKU_USER, 2}

\* C6: the value logOut stores in user is none of the roles, and at the
\* point of logOut where the driver's logout is called, the only point
\* between its steps, the user is that value already: no query there finds
\* the normal user logged in, whatever the private list holds.
LogoutInvalidatesFirst ==
    /\ NoUser \notin Roles
    /\ pc = "logOut_drv" => user = NoUser /\ user # CKU_USER

\* C6 witness: logOut is about to call the driver, after a login has
\* succeeded, with objects in the private list.
LogoutInvalidatesFirstWitness ==
    /\ pc = "logOut_drv"
    /\ ret = [op |-> "logIn", rc |-> CKR_OK]
    /\ tokenPrivObjList # <<>>

\* C4: while the user of the token is not the normal user, neither findObject
\* nor findMatchingTokenObject returns an object of the private list.
PrivateObjectsOnlyForNormalUser ==
    user # CKU_USER =>
        /\ \A handle \in Handles : findObject(handle, NULL, FALSE).object = NULL
        /\ \A pTemplate \in AttrMaps :
               ~findMatchingTokenObject(pTemplate, NULL).private

----------------------------------------------------------------------------
(* Properties of the detection *)

\* newToken has returned
Detected == pc = "idle" /\ ret.op = "newToken"

\* the driver's newToken has been invoked
Constructs(d) == \E k \in DOMAIN calls : calls[k] = [drv |-> d, fn |-> "newToken"]

\* the driver's isCandidate has been invoked
Probes(d) == \E k \in DOMAIN calls : calls[k] = [drv |-> d, fn |-> "isCandidate"]

\* C7: the drivers are asked in the order of the table; the newToken of a
\* driver is invoked only if the driver accepts the ATR and the newToken of
\* every accepting driver before it returned CKR_TOKEN_NOT_RECOGNIZED; and
\* once the newToken of a driver has returned CKR_OK, that call is the last
\* one and newToken returns CKR_OK.
DetectionFirstMatch ==
    /\ \A k, l \in DOMAIN calls : k < l => calls[k].drv <= calls[l].drv
    /\ \A b \in tokenDriver :
           Constructs(b) =>
               /\ atr[b].isCandidate
               /\ \A a \in 1..(b - 1) :
                      atr[a].isCandidate => atr[a].newToken = CKR_TOKEN_NOT_RECOGNIZED
    /\ \A a \in tokenDriver :
           (Constructs(a) /\ atr[a].newToken = CKR_OK) =>
               /\ calls[Len(calls)] = [drv |-> a, fn |-> "newToken"]
               /\ \A b \in (a + 1)..NumDrivers : ~Probes(b) /\ ~Constructs(b)
               /\ Detected /\ ret.rc = CKR_OK

\* C7 witness: two drivers accept the ATR, the first returned
\* CKR_TOKEN_NOT_RECOGNIZED, the second constructed the token, a driver
\* between them rejected the ATR, and a driver after them accepts it.
DetectionFirstMatchWitness ==
    /\ Detected
    /\ \E a, r, b, c \in tokenDriver :
           /\ a < r /\ r < b /\ b < c
           /\ Constructs(a) /\ atr[a].newToken = CKR_TOKEN_NOT_RECOGNIZED
           /\ ~atr[r].isCandidate /\ Probes(r)
           /\ Constructs(b) /\ atr[b].newToken = CKR_OK
           /\ atr[c].isCandidate

\* C8: when the newToken of an accepting driver has returned a result other
\* than CKR_OK and CKR_TOKEN_NOT_RECOGNIZED, newToken has returned that result
\* and has invoked no driver after that one.
DetectionAbortsOnError ==
    \A a \in tokenDriver :
        (Constructs(a) /\ atr[a].newToken \in DetectErrors) =>
            /\ Detected /\ ret.rc = atr[a].newToken
            /\ \A b \in (a + 1)..NumDrivers : ~Probes(b) /\ ~Constructs(b)

\* C8 witness: newToken has failed with the error of a driver although a
\* driver after it accepts the ATR and would construct the token.
DetectionAbortsOnErrorWitness ==
    /\ Detected
    /\ \E a, b \in tokenDriver :
           /\ a < b
           /\ Constructs(a) /\ atr[a].newToken \in DetectErrors
           /\ atr[b].isCandidate /\ atr[b].newToken = CKR_OK

\* the driver rejects the ATR, or accepts it and does not recognize the token
Declines(d) ==
    ~atr[d].isCandidate \/ atr[d].newToken = CKR_TOKEN_NOT_RECOGNIZED

\* C9: newToken returns CKR_TOKEN_NOT_RECOGNIZED exactly when every driver of
\* the table declines; when some driver has constructed the token, the result
\* is CKR_OK whatever the drivers before it returned.
NotRecognizedIffAllDecline ==
    Detected =>
        /\ ret.rc = CKR_TOKEN_NOT_RECOGNIZED <=> \A d \in tokenDriver : Declines(d)
        /\ (\E d \in tokenDriver : Constructs(d) /\ atr[d].newToken = CKR_OK)
               => ret.rc = CKR_OK /\ tokenState = "live"

\* C9 witness: every driver declined, one of them after accepting the ATR.
NotRecognizedWitness ==
    /\ Detected
    /\ ret.rc = CKR_TOKEN_NOT_RECOGNIZED
    /\ \E a, b \in tokenDriver : Constructs(a) /\ ~atr[b].isCandidate /\ Probes(b)

----------------------------------------------------------------------------
(* Properties of the teardown *)

\* the steps of freeToken for the driver of the token, in the order of the code
TeardownSteps ==
    <<"closeSessionsForSlot">>
        \o (IF drv.freeToken THEN <<"drv->freeToken">> ELSE <<>>)
        \o <<"removePrivateObjects", "removePublicObjects", "free">>

\* the sessions of the pool that are bound to the slot of the token
SessionsOfSlot == {s \in DOMAIN sessionPool : sessionPool[s] = SlotId}

\* freeToken has begun and the token is not released yet
TearingDown == pc \in {"freeToken_drv", "freeToken_priv", "freeToken_pub", "freeToken_free"}

\* C10: the steps freeToken has completed are the first steps of: sessions of
\* the slot closed, driver hook if present, private list purged, public list
\* purged, storage released. From the first step on no session is bound to
\* the slot; the driver hook, if present, has run before a list is purged;
\* both lists are empty and both counts 0 before the storage is released.
TeardownInOrder ==
    /\ Len(teardown) <= Len(TeardownSteps)
    /\ teardown = SubSeq(TeardownSteps, 1, Len(teardown))
    /\ (TearingDown \/ tokenState = "freed") =>
           SessionsOfSlot = {} /\ teardown[1] = "closeSessionsForSlot"
    /\ (pc \in {"freeToken_priv", "freeToken_pub", "freeToken_free"} /\ drv.freeToken) =>
           "drv->freeToken" \in Range(teardown)
    /\ (pc = "freeToken_free" \/ tokenState = "freed") =>
           /\ tokenObjList = <<>> /\ tokenPrivObjList = <<>>
           /\ numberOfTokenObjects = 0 /\ numberOfPrivateTokenObjects = 0
    /\ tokenState = "freed" <=> teardown = TeardownSteps
    /\ TearingDown <=> (teardown # <<>> /\ tokenState = "live")

\* C10 witness: a token with a driver hook, public and private objects and a
\* session on its slot is being released: the session is closed, the hook
\* has run, and the lists are still to be purged.
TeardownInOrderWitness ==
    /\ pc = "freeToken_priv"
    /\ drv.freeToken
    /\ ret.op = "openSession"
    /\ sessionPool = <<>>
    /\ tokenObjList # <<>>
    /\ tokenPrivObjList # <<>>

\* how often freeToken has completed the step
TimesDone(step) == Cardinality({k \in DOMAIN teardown : teardown[k] = step})

\* C11: when freeToken is called on a token to which no object was ever added,
\* so that both lists are empty, each of its steps can be taken, the lists
\* stay empty with counts 0, closeSessionsForSlot is invoked once and the
\* hook of the driver once if the driver has one and never otherwise; when
\* freeToken has returned, no session is bound to the slot of the token.
EmptyTeardownOnce ==
    (assigned = <<>> /\ (TearingDown \/ tokenState = "freed")) =>
        /\ TimesDone("closeSessionsForSlot") = 1
        /\ TimesDone("drv->freeToken") <= 1
        /\ ~drv.freeToken => TimesDone("drv->freeToken") = 0
        /\ (pc # "freeToken_drv" /\ drv.freeToken) => TimesDone("drv->freeToken") = 1
        /\ tokenObjList = <<>> /\ tokenPrivObjList = <<>>
        /\ numberOfTokenObjects = 0 /\ numberOfPrivateTokenObjects = 0
        /\ TearingDown =>
               ENABLED (freeTokenDriver \/ removePrivateObjects
                            \/ removePublicObjects \/ freeTokenFree)
        /\ tokenState = "freed" =>
               /\ ret = [op |-> "freeToken", rc |-> CKR_OK]
               /\ SessionsOfSlot = {}
               /\ TimesDone("free") = 1

\* C11 witness: a token without objects and without driver hook has been
\* released.
EmptyTeardownOnceWitness ==
    /\ tokenState = "freed"
    /\ assigned = <<>>
    /\ ~drv.freeToken
    /\ teardown = TeardownSteps

----------------------------------------------------------------------------
(* Properties of the PIN functions and of the login *)

\* the fields of the token
tokenFields == <<tokenState, tokenObjList, tokenPrivObjList, numberOfTokenObjects,
                 numberOfPrivateTokenObjects, freeObjectNumber, user, drv>>

\* C12: a call of initPIN or setPIN for a driver without the hook returns
\* CKR_FUNCTION_NOT_SUPPORTED, invokes no function of the driver and leaves
\* the token as it was; for a driver with the hook it invokes that hook, once,
\* and returns the result of the hook.
PinDelegation ==
    [][\A fn \in {"initPIN", "setPIN"} :
           ret'.op = fn =>
               LET hook == IF fn = "initPIN" THEN "initpin" ELSE "setpin"
                   present == IF fn = "initPIN" THEN drv.initpin ELSE drv.setpin
               IN  IF ~present
                   THEN /\ ret'.rc = CKR_FUNCTION_NOT_SUPPORTED
                        /\ calls' = <<>>
                        /\ UNCHANGED tokenFields
                   ELSE /\ Len(calls') = 1
                        /\ calls'[1].fn = hook
                        /\ ret'.rc = calls'[1].rc
                        /\ ret'.rc \in PinResults]_vars

\* C12 witness: the security officer is logged in, the driver has initpin but
\* no setpin, and setPIN has returned CKR_FUNCTION_NOT_SUPPORTED.
PinDelegationWitness ==
    /\ ret = [op |-> "setPIN", rc |-> CKR_FUNCTION_NOT_SUPPORTED]
    /\ ~drv.setpin /\ drv.initpin
    /\ calls = <<>>
    /\ user = CKU_SO

\* C13: logIn calls the login of the driver once and returns what it
\* reported, whatever the result; the user of the token after logIn is the
\* one the driver left, so it changes only when the driver reported CKR_OK.
\* A private object that findObject rejected before the call is found after
\* a logIn of the normal user that returned CKR_OK, and is still rejected
\* after a logIn that failed.
LoginDelegation ==
    [][ret'.op = "logIn" =>
           /\ Len(calls') = 1
           /\ calls'[1].fn = "login"
           /\ ret'.rc = calls'[1].rc
           /\ user' = IF calls'[1].rc = CKR_OK THEN calls'[1].userType ELSE user
           /\ UNCHANGED <<tokenObjList, tokenPrivObjList>>
           /\ \A i \in DOMAIN tokenPrivObjList :
                  LET handle == tokenPrivObjList[i].handle
                  IN  findObject(handle, NULL, FALSE).rc = -1 =>
                          /\ (ret'.rc = CKR_OK /\ calls'[1].userType = CKU_USER) =>
                                 /\ findObject(handle, NULL, FALSE)'.rc >= 0
                                 /\ findObject(handle, NULL, FALSE)'.object.handle = handle
                          /\ ret'.rc # CKR_OK =>
                                 findObject(handle, NULL, FALSE)' =
                                     [rc |-> -1, object |-> NULL]]_vars

\* C13 witness: the token holds a private object and the logIn of the normal
\* user has returned CKR_OK, reported by the driver.
LoginDelegationWitness ==
    /\ ret = [op |-> "logIn", rc |-> CKR_OK]
    /\ calls = <<drvLoginCall(CKU_USER, CKR_OK)>>
    /\ user = CKU_USER
    /\ tokenPrivObjList # <<>>
    /\ findObject(tokenPrivObjList[1].handle, NULL, FALSE).object = tokenPrivObjList[1]

----------------------------------------------------------------------------
(* Properties of the counts and of the removal of objects *)

\* C14: on a token on which only addObject and removeTokenObject have been
\* called, whether they succeeded or failed, the count of the public objects
\* is the length of the public list and the count of the private objects is
\* the length of the private list.
CountsMatchLists ==
    /\ numberOfTokenObjects = Len(tokenObjList)
    /\ numberOfPrivateTokenObjects = Len(tokenPrivObjList)

\* C14 witness: objects have been removed, the last removeTokenObject failed,
\* and both lists hold objects.
CountsMatchListsWitness ==
    /\ ret.op = "removeTokenObject" /\ ret.rc # CKR_OK
    /\ freed # {}
    /\ tokenObjList # <<>>
    /\ tokenPrivObjList # <<>>

\* a call of removeObjectLeavingAttributes returns CKR_OK in this step
LeavingAttributesSucceeds ==
    /\ pc = "idle"
    /\ ret'.op = "removeObjectLeavingAttributes" /\ ret'.rc = CKR_OK
    /\ <<tokenObjList, tokenPrivObjList>>' # <<tokenObjList, tokenPrivObjList>>

\* C15: a removeObjectLeavingAttributes that succeeds on a token whose counts
\* are the lengths of its lists leaves the counts the lengths of the lists:
\* it decrements the count of the list it removed the object from.
LeavingAttributesKeepsCounts ==
    [][(CountsMatchLists /\ LeavingAttributesSucceeds) => CountsMatchLists']_vars

----------------------------------------------------------------------------
(* Properties of getBaseToken *)

\* C16: with primarySlot references that lead from every slot to a slot
\* without primarySlot, the token getBaseToken returned is the token of a
\* slot without primarySlot, and getBaseToken of that token is that token.
BaseTokenIsPhysical ==
    ret.op = "getBaseToken" =>
        /\ primarySlot[ret.rc] = 0
        /\ getBaseToken(ret.rc) = ret.rc

----------------------------------------------------------------------------
(* Properties of the search by template *)

\* the positions of the objects of the list that match the template
Matching(list, pTemplate) ==
    {i \in DOMAIN list : isMatchingObject(list[i], pTemplate)}

\* the object of the list at the least of the positions
Earliest(list, positions) ==
    list[CHOOSE i \in positions : \A j \in positions : i <= j]

\* C17: findMatchingTokenObject returns CKR_OK and the matching public object
\* that was added first if a public object matches the template; if none
\* does, CKR_OK and the matching private object that was added first; if no
\* object matches, CKR_ARGUMENTS_BAD, and *pObject is what it was.
MatchPublicBeforePrivate ==
    \A pTemplate \in AttrMaps, out \in {NULL, StaleObject} :
        LET r == findMatchingTokenObject(pTemplate, out)
            pub == Matching(tokenObjList, pTemplate)
            priv == Matching(tokenPrivObjList, pTemplate)
        IN  IF pub # {}
            THEN /\ r.rc = CKR_OK
                 /\ r.object = Earliest(tokenObjList, pub)
                 /\ \A i \in pub : r.object.handle <= tokenObjList[i].handle
            ELSE IF priv # {}
            THEN /\ r.rc = CKR_OK
                 /\ r.object = Earliest(tokenPrivObjList, priv)
                 /\ \A i \in priv : r.object.handle <= tokenPrivObjList[i].handle
            ELSE /\ r.rc = CKR_ARGUMENTS_BAD
                 /\ r.object = out

\* C17 witness: the public object added first does not match a template, the
\* one added second does, and so does a private object added before both.
MatchPublicBeforePrivateWitness ==
    /\ pc = "idle"
    /\ Len(tokenObjList) = 2 /\ tokenPrivObjList # <<>>
    /\ \E pTemplate \in AttrMaps :
           /\ Matching(tokenObjList, pTemplate) = {2}
           /\ 1 \in Matching(tokenPrivObjList, pTemplate)
           /\ tokenPrivObjList[1].handle < tokenObjList[1].handle

----------------------------------------------------------------------------
(* Properties of removeObjectLeavingAttributes and of removals that fail *)

\* after is list without one of its objects
RemovedOne(list, after) == \E i \in DOMAIN list : after = RemoveAt(list, i)

\* C18: a removeObjectLeavingAttributes that succeeds removes one object from
\* one of the lists, wherever in the list the object is; the other objects of
\* the list stay, in their order, and the other list is as it was.
LeavingAttributesRemovesOne ==
    [][LeavingAttributesSucceeds =>
           \/ RemovedOne(tokenObjList, tokenObjList') /\ UNCHANGED tokenPrivObjList
           \/ RemovedOne(tokenPrivObjList, tokenPrivObjList') /\ UNCHANGED tokenObjList]_vars

\* the handle does not resolve for removeTokenObject on the list
AbsentFromList(handle, publicObject) ==
    handle \notin HandlesOf(IF publicObject THEN tokenObjList ELSE tokenPrivObjList)

\* the handle does not resolve for removeObjectLeavingAttributes
Unresolvable(handle, publicObject) ==
    \/ AbsentFromList(handle, publicObject)
    \/ ~publicObject /\ user # CKU_USER

\* C19: removeTokenObject for a handle that is not in the list, and
\* removeObjectLeavingAttributes for a handle that is not in the list or for
\* the private list while the user is not the normal user, return an error
\* and leave the lists, the counts, freeObjectNumber and the user of the token
\* as they were.
FailedRemovalChangesNothing ==
    [][\A handle \in Handles, publicObject \in BOOLEAN :
           (\/ AbsentFromList(handle, publicObject)
                  /\ removeTokenObject(handle, publicObject)
            \/ Unresolvable(handle, publicObject)
                  /\ removeObjectLeavingAttributes(handle, publicObject)) =>
               /\ ret'.rc # CKR_OK
               /\ UNCHANGED <<tokenObjList, tokenPrivObjList, numberOfTokenObjects,
                              numberOfPrivateTokenObjects, freeObjectNumber, user>>]_vars

\* C19 witness: the private list holds an object, the user is not the normal
\* user, and removeObjectLeavingAttributes has returned an error.
FailedRemovalWitness ==
    /\ pc = "idle"
    /\ ret = [op |-> "removeObjectLeavingAttributes", rc |-> -1]
    /\ user # CKU_USER
    /\ tokenPrivObjList # <<>>
    /\ CountsMatchLists

----------------------------------------------------------------------------
(* Properties of freeToken with sessions opened by another thread *)

\* C20: however the steps of freeToken and the opening of sessions on the
\* slot of the token by another thread interleave, once freeToken has
\* released the token the session pool holds no session of that slot.
NoSessionOutlivesToken ==
    tokenState = "freed" => SessionsOfSlot = {}

====
